---- MODULE Spec2Model ----
(***************************************************************************)
(* A model of compliancelib/oscal/catalog.py: the Catalog class (loading,  *)
(* the query layer over groups and controls, parameter-label lookup) and   *)
(* the recursive Markdown renderer format_part_as_markdown.                *)
(*                                                                         *)
(* Python values are modelled as follows.                                  *)
(*   str    a sequence of one-character strings                            *)
(*   dict   a record; an optional key is a field that may be missing       *)
(*   list   a sequence                                                     *)
(*   None   the record None below; False the record False                 *)
(*   a call's outcome: [kind |-> "return", value |-> v] or                 *)
(*                     [kind |-> "raise", exc |-> "<exception class>"]     *)
(***************************************************************************)
EXTENDS Integers, Sequences, FiniteSets, TLC

VARIABLES
    catalog_file,   \* the catalog source named by self.catalog_file
    oscal,          \* self.oscal
    info,           \* self.info
    pc,             \* the caller: "start", "constructed", "failed"; "calling", "called"
    call,           \* the method call being answered, with its arguments
    result          \* the outcome of that call

vars == <<catalog_file, oscal, info, pc, call, result>>

----------------------------------------------------------------------------
(* Python values *)

None == [none |-> TRUE]
False == [bool |-> FALSE]
EmptyDict == [k \in {} |-> None]

NL == "\n"
BS == "\\"
SP == " "

Return(v) == [kind |-> "return", value |-> v]
Raise(e) == [kind |-> "raise", exc |-> e]

\* dict.get(key, default)
dict_get(d, key, default) == IF key \in DOMAIN d THEN d[key] ELSE default

\* n * s for a str s: the empty string when n <= 0
RECURSIVE str_repeat(_, _)
str_repeat(n, s) == IF n <= 0 THEN <<>> ELSE s \o str_repeat(n - 1, s)

\* s.startswith(prefix)
starts_with(s, prefix) ==
    /\ Len(prefix) <= Len(s)
    /\ SubSeq(s, 1, Len(prefix)) = prefix

\* s.replace(old, new): the non-overlapping occurrences of old, leftmost first
RECURSIVE str_replace(_, _, _)
str_replace(s, old, new) ==
    IF s = <<>> THEN <<>>
    ELSE IF starts_with(s, old)
         THEN new \o str_replace(SubSeq(s, Len(old) + 1, Len(s)), old, new)
         ELSE <<Head(s)>> \o str_replace(Tail(s), old, new)

\* s.split(sep) for a one-character sep: always at least one piece
RECURSIVE str_split(_, _)
str_split(s, sep) ==
    IF s = <<>> THEN << <<>> >>
    ELSE LET rest == str_split(Tail(s), sep)
         IN  IF Head(s) = sep
             THEN << <<>> >> \o rest
             ELSE << <<Head(s)>> \o Head(rest) >> \o Tail(rest)

\* sep.join(pieces)
RECURSIVE str_join(_, _)
str_join(sep, pieces) ==
    IF pieces = <<>> THEN <<>>
    ELSE IF Len(pieces) = 1 THEN Head(pieces)
    ELSE Head(pieces) \o sep \o str_join(sep, Tail(pieces))

----------------------------------------------------------------------------
(* Catalog.find_dict_by_value *)

RECURSIVE find_dict_by_value(_, _, _)
find_dict_by_value(search_array, search_key, search_value) ==
    IF search_array = <<>> THEN None
    ELSE IF Head(search_array)[search_key] = search_value THEN Head(search_array)
    ELSE find_dict_by_value(Tail(search_array), search_key, search_value)

----------------------------------------------------------------------------
(* Catalog: loading and the query layer *)

\* lines 90-101: the outcome of _load_catalog_json for a catalog source. A
\* source that is no file makes it print an error and return False; a file
\* that cannot be opened makes open() raise; otherwise it returns the
\* document's 'catalog' object.
load_catalog_json(source) ==
    IF source.status = "absent" THEN Return(False)
    ELSE IF source.status = "unreadable" THEN Raise("PermissionError")
    ELSE Return(source.catalog)

\* lines 112-113: self.oscal['groups']; subscripting False raises TypeError
get_groups(o) ==
    IF o = False THEN Raise("TypeError")
    ELSE IF "groups" \notin DOMAIN o THEN Raise("KeyError")
    ELSE Return(o.groups)

\* lines 117, 127, 140: [item['id'] for item in search_collection]
ids_of(search_collection) == [i \in 1..Len(search_collection) |-> search_collection[i].id]

\* lines 115-117
get_group_ids(o) == ids_of(get_groups(o).value)

RECURSIVE controls_of_groups(_)
\* lines 121-122: the loop over the groups
controls_of_groups(groups) ==
    IF groups = <<>> THEN <<>>
    ELSE Head(groups).controls \o controls_of_groups(Tail(groups))

\* lines 119-123
get_controls(o) == controls_of_groups(get_groups(o).value)

\* lines 125-127
get_control_ids(o) == ids_of(get_controls(o))

RECURSIVE flatten_all_levels(_)
\* a changed loop, for comparison: nested controls are flattened at every level
flatten_all_levels(controls) ==
    IF controls = <<>> THEN <<>>
    ELSE <<Head(controls)>>
         \o (IF "controls" \in DOMAIN Head(controls)
             THEN flatten_all_levels(Head(controls).controls) ELSE <<>>)
         \o flatten_all_levels(Tail(controls))

RECURSIVE controls_with_nested(_)
\* lines 132-135: each control, then its own 'controls' when it has the key
controls_with_nested(controls) ==
    IF controls = <<>> THEN <<>>
    ELSE <<Head(controls)>>
         \o (IF "controls" \in DOMAIN Head(controls) THEN Head(controls).controls ELSE <<>>)
         \o controls_with_nested(Tail(controls))

RECURSIVE controls_all_of_groups(_)
\* lines 131-135: the loop over the groups
controls_all_of_groups(groups) ==
    IF groups = <<>> THEN <<>>
    ELSE controls_with_nested(Head(groups).controls) \o controls_all_of_groups(Tail(groups))

\* lines 129-136
get_controls_all(o) == controls_all_of_groups(get_groups(o).value)

\* lines 138-140
get_controls_all_ids(o) == ids_of(get_controls_all(o))

\* a changed lookup, for comparison: only the top-level controls are searched
get_control_by_id_top_level(o, control_id) ==
    find_dict_by_value(get_controls(o), "id", control_id)

\* lines 142-148
get_control_by_id(o, control_id) ==
    find_dict_by_value(get_controls_all(o), "id", control_id)

\* lines 150-153: subscripting the None of a failed search raises TypeError
get_control_parameter_label_by_id(control, param_id) ==
    IF "parameters" \notin DOMAIN control THEN Raise("KeyError")
    ELSE LET param == find_dict_by_value(control.parameters, "id", param_id)
         IN  IF param = None THEN Raise("TypeError")
             ELSE IF "label" \notin DOMAIN param THEN Raise("KeyError")
             ELSE Return(param.label)

----------------------------------------------------------------------------
(* Catalog.format_part_as_markdown *)

\* A filter_name argument: None, or a set of part names.
NoFilter == [is_none |-> TRUE, names |-> {}]
Filter(S) == [is_none |-> FALSE, names |-> S]

\* Python truth value of filter_name: None and the empty set are false
filter_given(filter_name) == ~filter_name.is_none /\ filter_name.names # {}

\* lines 174-180: the label text of a part at this level
part_label(part, indentation_level, hide_first_label) ==
    LET label_property == find_dict_by_value(dict_get(part, "properties", <<>>), "name", "label")
        label == IF label_property # None THEN label_property.value \o <<SP>> ELSE <<>>
    IN  IF indentation_level = -1 /\ hide_first_label THEN <<>> ELSE label

\* a changed normalization, for comparison: every single escaped newline is
\* made a real newline
normalized_prose_each_marker(part) ==
    IF "prose" \in DOMAIN part
    THEN str_replace(part.prose, <<BS, "n">>, <<NL>>)
    ELSE <<>>

\* lines 191-194: prose with the escaped paragraph boundary made real
normalized_prose(part) ==
    IF "prose" \in DOMAIN part
    THEN str_replace(part.prose, <<BS, "n", BS, "n">>, <<NL, NL>>)
    ELSE <<>>

\* a changed indentation, for comparison: the space after the label value is
\* not counted
indent_after_label_value_only(md, label) ==
    IF label # <<>>
    THEN LET lines == str_split(md, NL)
         IN  str_join(<<NL>>, [i \in 1..Len(lines) |->
                 IF i = 1 THEN lines[i] ELSE str_repeat(Len(label) - 1, <<SP>>) \o lines[i]])
    ELSE md

\* lines 199-203: lines after the first are indented by the label's length
indent_after_label(md, label) ==
    IF label # <<>>
    THEN LET lines == str_split(md, NL)
         IN  str_join(<<NL>>, [i \in 1..Len(lines) |->
                 IF i = 1 THEN lines[i] ELSE str_repeat(Len(label), <<SP>>) \o lines[i]])
    ELSE md

\* lines 210-213: every line is indented by the level
indent_lines(md, indentation_level, indentation_string) ==
    LET lines == str_split(md, NL)
    IN  str_join(<<NL>>, [i \in 1..Len(lines) |->
            str_repeat(indentation_level, indentation_string) \o lines[i]])

\* a changed block, for comparison: the label is emitted only before prose
part_block_label_before_prose(part, indentation_level, indentation_string, hide_first_label) ==
    LET label == IF "prose" \in DOMAIN part
                 THEN part_label(part, indentation_level, hide_first_label) ELSE <<>>
        md1 == label \o normalized_prose(part)
        md2 == indent_after_label(md1, label)
        md3 == indent_lines(md2, indentation_level, indentation_string)
    IN  IF md3 # <<>> THEN md3 \o <<NL, NL>> ELSE md3

\* lines 171-217: the text of the part itself, before its sub-parts
part_block(part, indentation_level, indentation_string, hide_first_label) ==
    LET label == part_label(part, indentation_level, hide_first_label)
        md1 == label \o normalized_prose(part)
        md2 == indent_after_label(md1, label)
        md3 == indent_lines(md2, indentation_level, indentation_string)
    IN  IF md3 # <<>> THEN md3 \o <<NL, NL>> ELSE md3

\* lines 224-225: a sub-part is skipped when filter_name is true (neither
\* None nor empty) and the sub-part's name is not in it
part_included(part, filter_name) ==
    ~(filter_given(filter_name) /\ dict_get(part, "name", "") \notin filter_name.names)

RECURSIVE format_part_as_markdown(_, _, _, _, _)

\* a changed loop, for comparison: the recursive call hands filter_name on
RECURSIVE emit_parts_same_filter(_, _, _, _)
emit_parts_same_filter(parts, indentation_level, indentation_string, filter_name) ==
    IF parts = <<>> THEN <<>>
    ELSE LET rest == emit_parts_same_filter(Tail(parts), indentation_level,
                                            indentation_string, filter_name)
         IN  IF part_included(Head(parts), filter_name)
             THEN format_part_as_markdown(Head(parts), indentation_level + 1,
                                          indentation_string, filter_name, TRUE) \o rest
             ELSE rest

\* lines 221-230: the loop over the sub-parts; the recursive call passes the
\* indentation only, so a sub-part is rendered with filter_name=None and
\* hide_first_label=True
RECURSIVE emit_parts(_, _, _, _)
emit_parts(parts, indentation_level, indentation_string, filter_name) ==
    IF parts = <<>> THEN <<>>
    ELSE LET rest == emit_parts(Tail(parts), indentation_level, indentation_string, filter_name)
         IN  IF part_included(Head(parts), filter_name)
             THEN format_part_as_markdown(Head(parts), indentation_level + 1,
                                          indentation_string, NoFilter, TRUE) \o rest
             ELSE rest

\* lines 219-230
sub_parts_markdown(part, indentation_level, indentation_string, filter_name) ==
    IF "parts" \in DOMAIN part
    THEN emit_parts(part.parts, indentation_level, indentation_string, filter_name)
    ELSE <<>>

format_part_as_markdown(part, indentation_level, indentation_string, filter_name, hide_first_label) ==
    part_block(part, indentation_level, indentation_string, hide_first_label)
        \o sub_parts_markdown(part, indentation_level, indentation_string, filter_name)

\* The parts, named by their paths from the part given to the call, whose
\* own text is part of the output: those the recursion of lines 219-230
\* reaches and whose block (lines 171-217) is not empty.
RECURSIVE contributing_parts(_, _, _, _, _, _)
contributing_parts(part, path, indentation_level, indentation_string, filter_name, hide_first_label) ==
    (IF part_block(part, indentation_level, indentation_string, hide_first_label) # <<>>
     THEN {path} ELSE {})
    \cup
    (IF "parts" \in DOMAIN part
     THEN UNION { contributing_parts(part.parts[i], path \o <<i>>, indentation_level + 1,
                                     indentation_string, NoFilter, TRUE) :
                  i \in { j \in 1..Len(part.parts) : part_included(part.parts[j], filter_name) } }
     ELSE {})

\* the default of indentation_string (line 165)
DefaultIndentation == <<SP, SP, SP, SP>>

\* lines 155-163
get_control_prose_as_markdown(control_data, part_types) ==
    format_part_as_markdown(control_data, -1, DefaultIndentation, part_types, TRUE)

----------------------------------------------------------------------------
(* The catalog sources: two groups whose controls, nested controls *)
(* included, number at most MaxControls                             *)

MaxControls == 3

ControlIds == { "ac-1", "ac-2", "ac-3" }

\* a control with the given nested controls; a control without any has no 'controls' key
with_controls(control, controls) ==
    IF controls = <<>> THEN control ELSE control @@ [controls |-> controls]

RECURSIVE ControlTrees(_)
RECURSIVE ControlForests(_)
\* the controls that number exactly n with their nested controls at every level
ControlTrees(n) ==
    IF n = 0 THEN {}
    ELSE { with_controls([id |-> i], f) : i \in ControlIds, f \in ControlForests(n - 1) }
\* the sequences of controls that number exactly m in all
ControlForests(m) ==
    IF m = 0 THEN { <<>> }
    ELSE UNION { { <<t>> \o f : t \in ControlTrees(k), f \in ControlForests(m - k) } :
                 k \in 1..m }

AllCatalogs ==
    UNION { { [id |-> "catalog", metadata |-> [title |-> "NIST SP 800-53"],
               groups |-> << [id |-> "ac", controls |-> f1],
                             [id |-> "au", controls |-> f2] >>] :
              f1 \in ControlForests(nm[1]), f2 \in ControlForests(nm[2]) } :
            nm \in { x \in (0..MaxControls) \X (0..MaxControls) : x[1] + x[2] <= MaxControls } }

Sources ==
    { [status |-> "absent"], [status |-> "unreadable"] }
    \cup { [status |-> "present", catalog |-> c] : c \in AllCatalogs }

\* the catalog of the instance whose renderer or parameter lookup is called
LoadedCatalog == [id |-> "catalog", groups |-> <<>>]

\* the ids looked up: the ids of the controls and one that no control has
QueryIds == ControlIds \cup { "zz-9" }

Init ==
    /\ catalog_file \in Sources
    /\ oscal = None
    /\ info = None
    /\ pc = "start"
    /\ call = [op |-> "none"]
    /\ result = None

\* lines 82-88: Catalog(catalog_file). self.oscal takes what the load
\* returns; self.info['groups'] = self.get_groups() then raises when that is
\* not a catalog, and the caller gets no instance.
Construct ==
    /\ pc = "start"
    /\ call' = [op |-> "__init__"]
    /\ LET loaded == load_catalog_json(catalog_file)
       IN  IF loaded.kind = "raise"
           THEN /\ result' = loaded
                /\ pc' = "failed"
                /\ UNCHANGED <<oscal, info>>
           ELSE LET groups == get_groups(loaded.value)
                IN  /\ oscal' = loaded.value
                    /\ IF groups.kind = "raise"
                       THEN /\ result' = groups
                            /\ pc' = "failed"
                            /\ info' = EmptyDict
                       ELSE /\ result' = Return(None)
                            /\ pc' = "constructed"
                            /\ info' = [groups |-> groups.value]
    /\ UNCHANGED catalog_file

\* a method is called on an instance the caller holds
HasInstance == pc \in {"constructed", "called"}

Answer(op, outcome) ==
    /\ HasInstance
    /\ call' = op
    /\ result' = outcome
    /\ pc' = "called"
    /\ UNCHANGED <<catalog_file, oscal, info>>

GetGroups == Answer([op |-> "get_groups"], get_groups(oscal))
GetGroupIds == Answer([op |-> "get_group_ids"], Return(get_group_ids(oscal)))
GetControls == Answer([op |-> "get_controls"], Return(get_controls(oscal)))
GetControlIds == Answer([op |-> "get_control_ids"], Return(get_control_ids(oscal)))
GetControlsAll == Answer([op |-> "get_controls_all"], Return(get_controls_all(oscal)))
GetControlsAllIds == Answer([op |-> "get_controls_all_ids"], Return(get_controls_all_ids(oscal)))
GetControlById ==
    \E control_id \in QueryIds :
        Answer([op |-> "get_control_by_id", control_id |-> control_id],
               Return(get_control_by_id(oscal, control_id)))

Next ==
    \/ Construct
    \/ GetGroups
    \/ GetGroupIds
    \/ GetControls
    \/ GetControlIds
    \/ GetControlsAll
    \/ GetControlsAllIds
    \/ GetControlById

Spec == Init /\ [][Next]_vars

----------------------------------------------------------------------------
(* Inputs of the parameter lookup: a control with at most MaxParams parameters *)

MaxParams == 3

Parameters ==
    { [id |-> "ac-1_prm_1", label |-> "organization-defined frequency"],
      [id |-> "ac-1_prm_1", label |-> "organization-defined roles"],
      [id |-> "ac-1_prm_2", label |-> "organization-defined personnel"] }

RECURSIVE ParameterLists(_)
\* the lists of exactly n parameters
ParameterLists(n) ==
    IF n = 0 THEN { <<>> }
    ELSE { <<x>> \o t : x \in Parameters, t \in ParameterLists(n - 1) }

ParamIds == { "ac-1_prm_1", "ac-1_prm_2", "ac-1_prm_3" }

ParamCalls ==
    { [op |-> "get_control_parameter_label_by_id",
       control |-> [id |-> "ac-1", parameters |-> ps], param_id |-> q] :
        ps \in UNION { ParameterLists(n) : n \in 0..MaxParams }, q \in ParamIds }

InitParams ==
    /\ catalog_file = [status |-> "present", catalog |-> LoadedCatalog]
    /\ oscal = LoadedCatalog
    /\ info = [groups |-> LoadedCatalog.groups]
    /\ pc = "calling"
    /\ call \in ParamCalls
    /\ result = None

GetControlParameterLabelById ==
    /\ pc = "calling"
    /\ call.op = "get_control_parameter_label_by_id"
    /\ result' = get_control_parameter_label_by_id(call.control, call.param_id)
    /\ pc' = "called"
    /\ UNCHANGED <<catalog_file, oscal, info, call>>

NextParams == GetControlParameterLabelById

SpecParams == InitParams /\ [][NextParams]_vars

----------------------------------------------------------------------------
(* Inputs of the renderer: part trees of at most MaxNodes parts *)

MaxNodes == 3

\* a part with the given sub-parts; a part without sub-parts has no 'parts' key
with_parts(part, parts) == IF parts = <<>> THEN part ELSE part @@ [parts |-> parts]

LabelProperty(v) == [name |-> "label", value |-> v]

\* the parts of a control's narrative, without their sub-parts: a statement
\* with one line of prose, a labelled item whose prose holds an escaped
\* paragraph boundary, a part with a label and no prose, and a part with
\* neither a label nor prose
PartKinds ==
    { [name |-> "statement", prose |-> <<"s">>],
      [name |-> "item", properties |-> <<LabelProperty(<<"a", ".">>)>>,
       prose |-> <<"i", BS, "n", BS, "n", "j">>],
      [name |-> "guidance", properties |-> <<LabelProperty(<<"b", ".">>)>>],
      [name |-> "item", properties |-> <<[name |-> "sort-id", value |-> <<"x">>]>>] }

RECURSIVE PartTrees(_)
RECURSIVE PartForests(_)
\* the part trees of exactly n parts
PartTrees(n) ==
    IF n = 0 THEN {}
    ELSE { with_parts(k, f) : k \in PartKinds, f \in PartForests(n - 1) }
\* the sequences of part trees of exactly m parts in all
PartForests(m) ==
    IF m = 0 THEN { <<>> }
    ELSE UNION { { <<t>> \o f : t \in PartTrees(k), f \in PartForests(m - k) } : k \in 1..m }

AllParts == UNION { PartTrees(n) : n \in 1..MaxNodes }

Levels == {-1, 0, 1}
IndentationStrings == { DefaultIndentation, <<"\t">> }
FormatFilters == { NoFilter, Filter({"statement"}) }
PartTypes == { Filter({"statement"}), Filter({"item"}), Filter({"statement", "item"}),
               Filter({"guidance"}), Filter({}) }

RenderCalls ==
    { [op |-> "format_part_as_markdown", part |-> p, indentation_level |-> l,
       indentation_string |-> s, filter_name |-> f, hide_first_label |-> h] :
        p \in AllParts, l \in Levels, s \in IndentationStrings,
        f \in FormatFilters, h \in BOOLEAN }
    \cup
    { [op |-> "get_control_prose_as_markdown", part |-> p, indentation_level |-> -1,
       indentation_string |-> DefaultIndentation, filter_name |-> f,
       hide_first_label |-> TRUE] :
        p \in AllParts, f \in PartTypes }

InitRender ==
    /\ catalog_file = [status |-> "present", catalog |-> LoadedCatalog]
    /\ oscal = LoadedCatalog
    /\ info = [groups |-> LoadedCatalog.groups]
    /\ pc = "calling"
    /\ call \in RenderCalls
    /\ result = None

FormatPart ==
    /\ pc = "calling"
    /\ call.op = "format_part_as_markdown"
    /\ result' = Return(format_part_as_markdown(call.part, call.indentation_level,
                     call.indentation_string, call.filter_name, call.hide_first_label))
    /\ pc' = "called"
    /\ UNCHANGED <<catalog_file, oscal, info, call>>

GetControlProse ==
    /\ pc = "calling"
    /\ call.op = "get_control_prose_as_markdown"
    /\ result' = Return(get_control_prose_as_markdown(call.part, call.filter_name))
    /\ pc' = "called"
    /\ UNCHANGED <<catalog_file, oscal, info, call>>

NextRender == FormatPart \/ GetControlProse

SpecRender == InitRender /\ [][NextRender]_vars

----------------------------------------------------------------------------
(* Inputs of the prose normalization: a part whose prose is any string of *)
(* at most MaxProseLen characters over backslash, n and a letter          *)

MaxProseLen == 6

ProseChars == { BS, "n", "x" }

RECURSIVE Strings(_)
\* the strings of exactly n characters
Strings(n) ==
    IF n = 0 THEN { <<>> }
    ELSE { <<c>> \o t : c \in ProseChars, t \in Strings(n - 1) }

AllProse == UNION { Strings(n) : n \in 0..MaxProseLen }

ProseCalls ==
    { [op |-> "format_part_as_markdown", part |-> [name |-> "statement", prose |-> p],
       indentation_level |-> -1, indentation_string |-> DefaultIndentation,
       filter_name |-> NoFilter, hide_first_label |-> TRUE] : p \in AllProse }

InitProse ==
    /\ catalog_file = [status |-> "present", catalog |-> LoadedCatalog]
    /\ oscal = LoadedCatalog
    /\ info = [groups |-> LoadedCatalog.groups]
    /\ pc = "calling"
    /\ call \in ProseCalls
    /\ result = None

NextProse == FormatPart

SpecProse == InitProse /\ [][NextProse]_vars

----------------------------------------------------------------------------
(* Properties of the renderer, checked under SpecRender *)

Rendered == pc = "called" /\ call.op \in {"format_part_as_markdown", "get_control_prose_as_markdown"}

has_label(part) == find_dict_by_value(dict_get(part, "properties", <<>>), "name", "label") # None
label_value(part) == find_dict_by_value(dict_get(part, "properties", <<>>), "name", "label").value
has_prose(part) == "prose" \in DOMAIN part
sub_parts(part) == dict_get(part, "parts", <<>>)

\* the label of the call's part is shown: it is hidden at level -1 with hide_first_label
label_shown == ~(call.indentation_level = -1 /\ call.hide_first_label)

\* the output of the sub-parts of the call's part
CallSubParts ==
    sub_parts_markdown(call.part, call.indentation_level, call.indentation_string,
                       call.filter_name)

Max(a, b) == IF a >= b THEN a ELSE b

\* the depth indentation of the call's part
CallIndentation == str_repeat(Max(call.indentation_level, 0), call.indentation_string)

\* the part without the sub-parts, at any depth, whose name is not in names
RECURSIVE prune_all(_, _)
prune_all(part, names) ==
    IF "parts" \in DOMAIN part
    THEN LET kept == SelectSeq(part.parts, LAMBDA p : p.name \in names)
         IN  [f \in DOMAIN part |->
                 IF f = "parts" THEN [i \in 1..Len(kept) |-> prune_all(kept[i], names)]
                 ELSE part[f]]
    ELSE part

\* the part without its direct sub-parts whose name is not in names
prune_top(part, names) ==
    IF "parts" \in DOMAIN part
    THEN [f \in DOMAIN part |->
             IF f = "parts" THEN SelectSeq(part.parts, LAMBDA p : p.name \in names)
             ELSE part[f]]
    ELSE part

\* C1 as claimed: with a non-empty filter, no part below the root whose name
\* is not in the filter, at any depth, contributes text, nor do its
\* descendants: the output is that of the tree without those parts.
C1_FilterAtEveryLevel ==
    (Rendered /\ filter_given(call.filter_name)) =>
        result.value = format_part_as_markdown(prune_all(call.part, call.filter_name.names),
                           call.indentation_level, call.indentation_string, NoFilter,
                           call.hide_first_label)

\* C1 as amended: with a non-empty filter, the filter is applied to the direct
\* sub-parts of the part given to the call and to no other: a direct sub-part
\* whose name is not in the filter contributes nothing, nor do its
\* descendants, and the sub-parts of an included part are rendered whatever
\* their names. The output is that of the tree without the excluded direct
\* sub-parts, rendered without a filter.
C1_FilterAtTopLevelOnly ==
    (Rendered /\ filter_given(call.filter_name)) =>
        result.value = format_part_as_markdown(prune_top(call.part, call.filter_name.names),
                           call.indentation_level, call.indentation_string, NoFilter,
                           call.hide_first_label)

\* a call with a non-empty filter on a part with an included sub-part that
\* has a sub-part of its own whose name is not in the filter
C1_Witness ==
    /\ Rendered
    /\ filter_given(call.filter_name)
    /\ \E i \in 1..Len(sub_parts(call.part)) :
        /\ call.part.parts[i].name \in call.filter_name.names
        /\ \E j \in 1..Len(sub_parts(call.part.parts[i])) :
            /\ call.part.parts[i].parts[j].name \notin call.filter_name.names
            /\ has_prose(call.part.parts[i].parts[j])
    /\ result.value # format_part_as_markdown(prune_all(call.part, call.filter_name.names),
                           call.indentation_level, call.indentation_string, NoFilter,
                           call.hide_first_label)

CallContributing(filter_name) ==
    contributing_parts(call.part, <<>>, call.indentation_level, call.indentation_string,
                       filter_name, call.hide_first_label)

\* C2: filter monotonicity. For every two filter sets A and B with A a subset
\* of B, the empty set included, the parts that contribute text under A are
\* among the parts that contribute text under B.
C2_FilterMonotone ==
    (Rendered /\ ~call.filter_name.is_none) =>
        \A A \in SUBSET call.filter_name.names :
            CallContributing(Filter(A)) \subseteq CallContributing(call.filter_name)

\* C3: a part with neither a label property nor prose contributes nothing of
\* its own at any depth and for any indentation string: its output is exactly
\* the output of its included sub-parts.
C3_BarePartContributesNothing ==
    (Rendered /\ ~has_label(call.part) /\ ~has_prose(call.part)) =>
        result.value = CallSubParts

\* the lines of the block of a labelled part with prose: the first line
\* carries the label, every later line as many spaces as the label text is long
expected_label_block(indentation, label_text, prose_lines) ==
    str_join(<<NL>>, [i \in 1..Len(prose_lines) |->
        indentation \o (IF i = 1 THEN label_text
                        ELSE [k \in 1..Len(label_text) |-> SP]) \o prose_lines[i]])

\* C9: label continuation alignment. A part with a shown label text of length
\* L and normalized prose of several lines renders as the depth indentation
\* (the indentation string max(d, 0) times), the label text and the first
\* prose line, then for every later prose line the depth indentation, L
\* spaces and the line; the depth indentation is empty at depths -1 and 0.
C9_LabelContinuationAlignment ==
    (Rendered /\ has_label(call.part) /\ label_shown /\ has_prose(call.part)
        /\ Len(str_split(normalized_prose(call.part), NL)) > 1) =>
        /\ result.value =
              expected_label_block(CallIndentation, label_value(call.part) \o <<SP>>,
                                   str_split(normalized_prose(call.part), NL))
              \o <<NL, NL>> \o CallSubParts
        /\ call.indentation_level \in {-1, 0} =>
              result.value =
                  expected_label_block(<<>>, label_value(call.part) \o <<SP>>,
                                       str_split(normalized_prose(call.part), NL))
                  \o <<NL, NL>> \o CallSubParts

\* a labelled part with prose of several lines, rendered with its label at
\* depth -1, at depth 0 and at depth 1
C9_Witness ==
    /\ Rendered /\ has_label(call.part) /\ label_shown /\ has_prose(call.part)
    /\ Len(str_split(normalized_prose(call.part), NL)) = 3
    /\ call.indentation_level = -1

\* C10 as claimed: a non-root part with a label property and no prose
\* contributes no block of its own: its output is exactly the output of its
\* included sub-parts.
C10_LabelOnlyWithProse ==
    (Rendered /\ call.indentation_level >= 0 /\ has_label(call.part) /\ ~has_prose(call.part)) =>
        result.value = CallSubParts

\* C10 as amended: the label text is emitted whether or not the part has
\* prose. A non-root part with a label property and no prose contributes the
\* block made of the depth indentation, the label value, one space and the
\* paragraph boundary, followed by the output of its included sub-parts.
C10_LabelEmittedWithoutProse ==
    (Rendered /\ call.indentation_level >= 0 /\ has_label(call.part) /\ ~has_prose(call.part)) =>
        result.value = CallIndentation \o label_value(call.part) \o <<SP>> \o <<NL, NL>>
                           \o CallSubParts

\* a part with a label and no prose, rendered below the root with sub-parts
C10_Witness ==
    /\ Rendered /\ call.indentation_level = 1
    /\ has_label(call.part) /\ ~has_prose(call.part)
    /\ sub_parts(call.part) # <<>>

----------------------------------------------------------------------------
(* Properties of the prose normalization, checked under SpecProse *)

Marker == <<BS, "n">>
DoubleMarker == <<BS, "n", BS, "n">>

\* sub occurs in s
occurs(s, sub) ==
    \E i \in 1..(Len(s) - Len(sub) + 1) : SubSeq(s, i, i + Len(sub) - 1) = sub

\* C8 as claimed: each escaped-newline marker (backslash, n) of the prose is
\* rendered as a real blank line, and no literal marker is left in the
\* output, whatever the number and adjacency of the markers.
C8_NoMarkerLeft ==
    (Rendered /\ has_prose(call.part)) =>
        /\ ~occurs(result.value, Marker)
        /\ occurs(call.part.prose, Marker) => occurs(result.value, <<NL, NL>>)

\* C8 as amended: the paragraph marker is two escaped newlines in a row (the
\* four characters backslash, n, backslash, n). Each non-overlapping
\* occurrence of it, leftmost first, is rendered as two real newlines: the
\* rendered prose (the output before the part's closing paragraph boundary)
\* holds no double marker and no literal marker directly before a rendered
\* paragraph break, and writing every paragraph break of it back as a double
\* marker gives the prose again. A marker that is not paired, a single one
\* or the last of an odd run, stays in the output as it is.
C8_DoubleMarkerNormalized ==
    (Rendered /\ has_prose(call.part)) =>
        IF call.part.prose = <<>> THEN result.value = <<>>
        ELSE LET rendered == SubSeq(result.value, 1, Len(result.value) - 2)
             IN  /\ result.value = rendered \o <<NL, NL>>
                 /\ ~occurs(rendered, DoubleMarker)
                 /\ ~occurs(rendered, Marker \o <<NL, NL>>)
                 /\ str_replace(rendered, <<NL, NL>>, DoubleMarker) = call.part.prose

\* a prose of three markers in a row: the first two are rendered as a
\* paragraph break and the third stays
C8_Witness ==
    /\ Rendered
    /\ call.part.prose = DoubleMarker \o Marker
    /\ result.value = <<NL, NL>> \o Marker \o <<NL, NL>>

----------------------------------------------------------------------------
(* Properties of the query layer, checked under Spec *)

\* the positions of seq whose control has this id
positions_of(seq, control_id) == { i \in 1..Len(seq) : seq[i].id = control_id }

Min(S) == CHOOSE x \in S : \A y \in S : x <= y

\* C4: lookup completeness. get_control_by_id returns the first control of
\* get_controls_all() with the id, which with unique ids is the one control
\* that has it, and returns None, raising nothing, for an id no control of
\* get_controls_all() has.
C4_LookupCompleteness ==
    (pc = "called" /\ call.op = "get_control_by_id") =>
        LET all == get_controls_all(oscal)
            hits == positions_of(all, call.control_id)
        IN  /\ result.kind = "return"
            /\ hits = {} => result.value = None
            /\ hits # {} => result.value = all[Min(hits)]
            /\ \A i \in hits : Cardinality(hits) = 1 => result.value = all[i]

\* an id is looked up that two different controls of get_controls_all()
\* have, and the first of them is returned
C4_Witness ==
    /\ pc = "called" /\ call.op = "get_control_by_id"
    /\ LET all == get_controls_all(oscal)
           hits == positions_of(all, call.control_id)
       IN  /\ Cardinality(hits) >= 2
           /\ \E i \in hits : all[i] # all[Min(hits)]
           /\ result.value = all[Min(hits)]

\* the controls nested in a control
nested_controls(control) == dict_get(control, "controls", <<>>)

RECURSIVE entries_before(_, _)
\* how many entries get_controls_all gives the first k controls of a list:
\* one for each and one for each of its nested controls
entries_before(controls, k) ==
    IF k = 0 THEN 0
    ELSE entries_before(controls, k - 1) + 1 + Len(nested_controls(controls[k]))

RECURSIVE group_offset(_, _)
\* how many entries get_controls_all gives the groups before group g
group_offset(groups, g) ==
    IF g = 1 THEN 0
    ELSE group_offset(groups, g - 1)
         + entries_before(groups[g - 1].controls, Len(groups[g - 1].controls))

\* the position in get_controls_all() of control k of group g
top_position(groups, g, k) == group_offset(groups, g) + entries_before(groups[g].controls, k - 1) + 1

\* all is the groups' controls in document order, each directly followed by
\* its nested controls in document order, and nothing else
one_level_flattening(groups, all) ==
    /\ Len(all) = group_offset(groups, Len(groups) + 1)
    /\ \A g \in 1..Len(groups) : \A k \in 1..Len(groups[g].controls) :
        /\ all[top_position(groups, g, k)] = groups[g].controls[k]
        /\ \A j \in 1..Len(nested_controls(groups[g].controls[k])) :
            all[top_position(groups, g, k) + j] = nested_controls(groups[g].controls[k])[j]

\* the positions in get_controls_all() of the top-level controls
top_positions(groups) ==
    UNION { { top_position(groups, g, k) : k \in 1..Len(groups[g].controls) } :
            g \in 1..Len(groups) }

\* the entries of a sequence
elements(seq) == { seq[i] : i \in 1..Len(seq) }

\* the controls nested directly in a control of S
nested_in(S) == UNION { elements(nested_controls(c)) : c \in S }

RECURSIVE with_descendants(_)
\* the controls of S and the controls nested in them at any depth
with_descendants(S) == IF S = {} THEN {} ELSE S \cup with_descendants(nested_in(S))

\* the ids of the controls nested two or more levels deep
deep_ids(groups) ==
    LET top == UNION { elements(groups[g].controls) : g \in 1..Len(groups) }
    IN  { c.id : c \in with_descendants(nested_in(nested_in(top))) }

\* seq without the entries whose position is not in keep
RECURSIVE subsequence_at(_, _, _)
subsequence_at(seq, keep, i) ==
    IF i > Len(seq) THEN <<>>
    ELSE (IF i \in keep THEN <<seq[i]>> ELSE <<>>) \o subsequence_at(seq, keep, i + 1)

\* C7: get_controls_all() is, for the groups in document order and the
\* controls of each in document order, each top-level control directly
\* followed by its direct nested controls, and nothing else: one nesting
\* level is flattened, a control nested two or more levels deep whose id no
\* shallower control has is not found by get_control_by_id, and
\* get_controls() is exactly the subsequence of the top-level controls.
C7_OneLevelFlattening ==
    /\ (pc = "called" /\ call.op = "get_controls_all") =>
           one_level_flattening(oscal.groups, result.value)
    /\ (pc = "called" /\ call.op = "get_controls") =>
           result.value = subsequence_at(get_controls_all(oscal), top_positions(oscal.groups), 1)
    /\ (pc = "called" /\ call.op = "get_control_by_id"
            /\ call.control_id \in deep_ids(oscal.groups)
            /\ call.control_id \notin { c.id : c \in elements(get_controls_all(oscal)) }) =>
           result.value = None

\* a control nested two levels deep, with an id of its own, is looked up
C7_Witness ==
    /\ pc = "called" /\ call.op = "get_control_by_id"
    /\ call.control_id \in deep_ids(oscal.groups)
    /\ Len(get_controls_all(oscal)) = 2
    /\ result.value = None

\* C6: when the catalog source is absent or unreadable, the load step reports
\* a LoadError and never returns a normal value, construction fails with
\* LoadError, and no instance exists to answer a query.
C6_LoadErrorReported ==
    (catalog_file.status # "present" /\ pc # "start") =>
        /\ load_catalog_json(catalog_file) = Raise("LoadError")
        /\ result = Raise("LoadError")
        /\ ~HasInstance

----------------------------------------------------------------------------
(* Properties of the parameter lookup, checked under SpecParams *)

\* C5: get_control_parameter_label_by_id returns the label of the first
\* parameter of the control with the id, and fails with the dedicated
\* NotFoundError, never returning normally, when no parameter has it.
C5_NotFoundError ==
    (pc = "called" /\ call.op = "get_control_parameter_label_by_id") =>
        LET hits == positions_of(call.control.parameters, call.param_id)
        IN  /\ hits # {} => result = Return(call.control.parameters[Min(hits)].label)
            /\ hits = {} => result = Raise("NotFoundError")

====
